---- MODULE Spec2Model ----
(***************************************************************************)
(* Crawl orchestration of CrawlOps Studio (DataSculpt): the main process'  *)
(* CrawlQueue and profile table (IPC handlers), and the renderer's         *)
(* challenge list (ChallengeCenter).  The dispatcher and the pipeline      *)
(* result handler are not part of the sources; they are modelled from the  *)
(* design document (section 4.1) and marked as such.                       *)
(***************************************************************************)
EXTENDS Integers, Sequences, FiniteSets, TLC

VARIABLES
    items,          \* CrawlQueue.items: Map<url, URLItem> in insertion order
    profiles,       \* the profile table (name -> config)
    currentProfile, \* the active profile name
    challenges,     \* ChallengeCenter's challenges state (newest first)
    pending,        \* handleAction calls awaiting the main process' reply
    inflight,       \* capture operations handed to the pipeline, per URL
    everPaused,     \* history: URLs on which pause(url) has succeeded
    last,           \* the last operation performed and what it returned
    rows,           \* the session store's table: one row per session record
    now,            \* the session store's clock, in days
    crawlWindow,    \* the main process' one crawl window: the page it shows
    requests,       \* capture:singlefile calls in progress, each at an await
    files           \* the output directory: file name -> content written

\* the session store
sessionVars == <<rows, now>>

\* the capture handlers
captureVars == <<crawlWindow, requests, files>>

\* the crawl queue, the profile governor and the challenge list
queueVars == <<items, profiles, currentProfile, challenges, pending, inflight, everPaused>>

vars == <<items, profiles, currentProfile, challenges, pending, inflight, everPaused, last,
          rows, now, crawlWindow, requests, files>>

\* ------------------------------------------------------------------ bounds

NumUrls == 2
MaxBatch == 2
MaxAttempts == 2
MaxChallenges == 3
MaxPending == 2
NumOperatorUrls == 1

NumDomains == 2
MaxTime == 2
MaxRows == 2
MaxRequests == 2

\* ------------------------------------------------------- program constants

\* options.expiresInDays || 30
DefaultExpiresInDays == 30

\* URLs of the two demonstration challenges ChallengeCenter starts with
\* ('https://example.com/login', 'https://secure-site.com/page'); they are
\* not among the URLs the operator enqueues.
MockAuthUrl == -1
MockCaptchaUrl == 0

Urls == 1..NumUrls

\* The URLs enqueued where the operator works through the challenge list.
OperatorUrls == 1..NumOperatorUrls

OperatorUrlLists == UNION {[1..n -> OperatorUrls] : n \in 1..MaxBatch}

URLItemStatus ==
    {"queued", "running", "waiting_captcha", "waiting_user", "done", "failed", "skipped"}

ExecutionProfile == {"standard", "safe", "guided"}

\* Names the caller may pass to profile:set.  "constructor" is a member of
\* Object.prototype, so profiles["constructor"] is a truthy value although it
\* is no profile; "bogus" is a name with no value in the table.
ProfileArgs == ExecutionProfile \cup {"constructor", "bogus"}

EmptyConfig == [k \in {} |-> 0]

InitProfiles ==
    [n \in ExecutionProfile \cup {"constructor"} |->
        CASE n = "standard" -> [concurrency |-> 3, delay |-> 1000, respectRobots |-> 1]
          [] n = "safe" -> [concurrency |-> 1, delay |-> 10000, respectRobots |-> 1]
          [] n = "guided" -> [concurrency |-> 1, delay |-> 2000, respectRobots |-> 1]
          [] OTHER -> EmptyConfig]

NoOverrides == EmptyConfig

\* The overrides a caller passes to profile:set (undefined, or an object).
OverrideArgs == {NoOverrides, [concurrency |-> 1]}

\* What the retry claims pass to profile:set: the safe profile, as shipped or
\* with a retry budget.
RetryProfileArgs == {"safe"}

RetryOverrideArgs == {NoOverrides, [retries |-> 1]}

\* The overrides of the profile claims: also an object with a field that is
\* no policy field.
ProfileOverrideArgs == OverrideArgs \cup {[zoom |-> 1]}

\* the overrides taking the place of the config
Spread_SecondOnly(a, b) == b

\* { ...a, ...b }
Spread(a, b) ==
    [k \in (DOMAIN a) \cup (DOMAIN b) |-> IF k \in DOMAIN b THEN b[k] ELSE a[k]]

\* The options object Dashboard.handleStartCrawl passes to queue:enqueue
\* (the fields addItems reads; formats as the set of formats switched on).
EnqueueOptions ==
    {[depth |-> 2, profile |-> "standard", formats |-> {"json", "markdown", "html"}]}

\* Options objects a caller of queue:enqueue may pass: the Dashboard's with
\* the profile of its select box, with a depth below zero, with a profile
\* name that is no profile, and an object without the fields addItems reads.
EnqueueOptionArgs ==
    EnqueueOptions
    \cup {[depth |-> 2, profile |-> "guided", formats |-> {"json", "markdown", "html"}],
          [depth |-> -1, profile |-> "standard", formats |-> {"json", "markdown", "html"}],
          [depth |-> 2, profile |-> "bogus", formats |-> {"json", "markdown", "html"}],
          EmptyConfig}

\* The names the entry-label claims pass to profile:set.
LabelProfileArgs == {"standard", "safe"}

UrlLists == UNION {[1..n -> Urls] : n \in 1..MaxBatch}

UserActions == {"continue", "retry", "skip", "abort"}

PipelineResults == {"success", "transient", "captcha", "auth"}

\* ------------------------------------------------------------ CrawlQueue

\* this.items.has(url)
Has(q, url) == \E i \in 1..Len(q) : q[i].url = url

\* this.items.get(url); only used where Has(q, url)
IndexOf(q, url) == CHOOSE i \in 1..Len(q) : q[i].url = url

Get(q, url) == q[IndexOf(q, url)]

SetStatus(q, url, s) ==
    [q EXCEPT ![IndexOf(q, url)].status = s]

\* options.depth || 0: a missing field is undefined, and undefined and 0 are falsy
DepthOf(options) ==
    IF "depth" \in DOMAIN options /\ options.depth # 0 THEN options.depth ELSE 0

\* options.formats || {}: an object is truthy
FormatsOf(options) ==
    IF "formats" \in DOMAIN options THEN options.formats ELSE {}

\* options.profile || 'standard': undefined and '' are falsy
ProfileOf(options) ==
    IF "profile" \in DOMAIN options /\ options.profile # "" THEN options.profile ELSE "standard"

\* The entry addItems creates; error is '' while the entry has none.
NewItem(url, options) ==
    [url |-> url,
     depth |-> DepthOf(options),
     status |-> "queued",
     formats |-> FormatsOf(options),
     attempts |-> 0,
     error |-> "",
     profile |-> ProfileOf(options)]

\* Map.set putting a new key first
SetItem_NewKeyFirst(q, item) ==
    IF Has(q, item.url) THEN [q EXCEPT ![IndexOf(q, item.url)] = item] ELSE <<item>> \o q

\* this.items.set(item.url, item): a new key goes last, an old key keeps its place
SetItem(q, item) ==
    IF Has(q, item.url) THEN [q EXCEPT ![IndexOf(q, item.url)] = item] ELSE Append(q, item)

\* addItems without its has(url) test: every URL is set anew
RECURSIVE AddItemsFrom_NoHasTest(_, _, _, _)
AddItemsFrom_NoHasTest(q, urls, options, n) ==
    IF n = 0 THEN [q |-> q, enqueued |-> 0]
    ELSE LET before == AddItemsFrom_NoHasTest(q, urls, options, n - 1)
         IN  [q |-> SetItem(before.q, NewItem(urls[n], options)),
              enqueued |-> before.enqueued + 1]

\* addItems testing has(url) on the queue as it was before the call
RECURSIVE AddItemsFrom_TestsCallersQueue(_, _, _, _)
AddItemsFrom_TestsCallersQueue(q, urls, options, n) ==
    IF n = 0 THEN [q |-> q, enqueued |-> 0]
    ELSE LET before == AddItemsFrom_TestsCallersQueue(q, urls, options, n - 1)
             url == urls[n]
         IN  IF ~Has(q, url)
             THEN [q |-> SetItem(before.q, NewItem(url, options)),
                   enqueued |-> before.enqueued + 1]
             ELSE before

\* addItems: the queue and the count after the first n URLs of urls
RECURSIVE AddItemsFrom(_, _, _, _)
AddItemsFrom(q, urls, options, n) ==
    IF n = 0 THEN [q |-> q, enqueued |-> 0]
    ELSE LET before == AddItemsFrom(q, urls, options, n - 1)
             url == urls[n]
         IN  IF ~Has(before.q, url)
             THEN [q |-> SetItem(before.q, NewItem(url, options)),
                   enqueued |-> before.enqueued + 1]
             ELSE before

addItems(q, urls, options) == AddItemsFrom(q, urls, options, Len(urls))

\* items.filter(i => i.status is one of S).length
CountIn(q, S) == Cardinality({i \in 1..Len(q) : q[i].status \in S})

\* getStats counting an entry in waiting only when it is waiting_user
getStats_WaitingUserOnly(q) ==
    [running |-> CountIn(q, {"running"}),
     waiting |-> CountIn(q, {"waiting_user"}),
     done |-> CountIn(q, {"done"}),
     failed |-> CountIn(q, {"failed"}),
     total |-> Len(q)]

\* getStats
getStats(q) ==
    [running |-> CountIn(q, {"running"}),
     waiting |-> CountIn(q, {"waiting_captcha", "waiting_user"}),
     done |-> CountIn(q, {"done"}),
     failed |-> CountIn(q, {"failed"}),
     total |-> Len(q)]

\* getStats().running
RunningCount(q) == Cardinality({i \in 1..Len(q) : q[i].status = "running"})

\* pauseItem testing only that the entry is not finished
pauseItemOk_NotFinished(q, url) ==
    Has(q, url) /\ Get(q, url).status \in {"running", "queued"}

\* pauseItem testing only that the entry exists
pauseItemOk_AnyStatus(q, url) == Has(q, url)

\* pauseItem's test: if (item && item.status === 'running')
pauseItemOk(q, url) == Has(q, url) /\ Get(q, url).status = "running"

\* resumeItem testing only that the entry exists
resumeItemOk_AnyStatus(q, url) == Has(q, url)

\* resumeItem's test: if (item && item.status === 'waiting_user')
resumeItemOk(q, url) == Has(q, url) /\ Get(q, url).status = "waiting_user"

Ret(b) == IF b THEN "true" ELSE "false"

Op(op, ret) == [op |-> op, ret |-> ret]

\* the crawl window before its first loadURL
NoPage == <<>>

\* the empty output directory
NoFiles == [name \in {} |-> <<>>]

\* --------------------------------------------------------------- initial

MockChallenges ==
    <<[id |-> 1, url |-> MockAuthUrl], [id |-> 2, url |-> MockCaptchaUrl]>>

Init ==
    /\ items = <<>>
    /\ profiles = InitProfiles
    /\ currentProfile = "standard"
    /\ challenges = MockChallenges
    /\ pending = <<>>
    /\ inflight = [u \in Urls |-> 0]
    /\ everPaused = {}
    /\ last = Op("init", "")
    /\ rows = {}
    /\ now = 0
    /\ crawlWindow = NoPage
    /\ requests = <<>>
    /\ files = NoFiles

\* ------------------------------------------------------------- IPC handlers

\* queue:enqueue
Enqueue(urls, options) ==
    LET r == addItems(items, urls, options)
    IN  /\ items' = r.q
        /\ last' = Op("enqueue", ToString(r.enqueued))
        /\ UNCHANGED <<profiles, currentProfile, challenges, pending, inflight, everPaused>>
        /\ UNCHANGED <<sessionVars, captureVars>>

\* queue:pauseItem
PauseItem(url) ==
    /\ items' = IF pauseItemOk(items, url) THEN SetStatus(items, url, "waiting_user") ELSE items
    /\ everPaused' = IF pauseItemOk(items, url) THEN everPaused \cup {url} ELSE everPaused
    /\ last' = Op("pause", Ret(pauseItemOk(items, url)))
    /\ UNCHANGED <<profiles, currentProfile, challenges, pending, inflight>>
    /\ UNCHANGED <<sessionVars, captureVars>>

\* queue:resumeItem
ResumeItem(url) ==
    /\ items' = IF resumeItemOk(items, url) THEN SetStatus(items, url, "queued") ELSE items
    /\ last' = Op("resume", Ret(resumeItemOk(items, url)))
    /\ UNCHANGED <<profiles, currentProfile, challenges, pending, inflight, everPaused>>
    /\ UNCHANGED <<sessionVars, captureVars>>

\* profile:get answering with the default profile's config whatever is active
ProfileGet_DefaultConfig == [profile |-> currentProfile, config |-> profiles["standard"]]

\* profile:get answering with the config the profile shipped with
ProfileGet_ShippedConfig == [profile |-> currentProfile, config |-> InitProfiles[currentProfile]]

\* profile:get
ProfileGet == [profile |-> currentProfile, config |-> profiles[currentProfile]]

\* profile:set starting the run over: running entries go back to queued
ProfileSet_RestartsRunning(profile, overrides) ==
    /\ currentProfile' = IF profile \in DOMAIN profiles THEN profile ELSE currentProfile
    /\ profiles' = IF profile \in DOMAIN profiles /\ overrides # NoOverrides
                   THEN [profiles EXCEPT ![profile] = Spread(@, overrides)]
                   ELSE profiles
    /\ items' = [i \in 1..Len(items) |->
                    IF profile \in DOMAIN profiles /\ items[i].status = "running"
                    THEN [items[i] EXCEPT !.status = "queued"]
                    ELSE items[i]]
    /\ last' = Op("profileSet", IF profile \in DOMAIN profiles THEN "ok" ELSE "Invalid profile")
    /\ UNCHANGED <<challenges, pending, inflight, everPaused>>
    /\ UNCHANGED <<sessionVars, captureVars>>

\* profile:set; profiles[profile] is truthy exactly for the names with a value
ProfileSet(profile, overrides) ==
    /\ currentProfile' = IF profile \in DOMAIN profiles THEN profile ELSE currentProfile
    /\ profiles' = IF profile \in DOMAIN profiles /\ overrides # NoOverrides
                   THEN [profiles EXCEPT ![profile] = Spread(@, overrides)]
                   ELSE profiles
    /\ last' = Op("profileSet", IF profile \in DOMAIN profiles THEN "ok" ELSE "Invalid profile")
    /\ UNCHANGED <<items, challenges, pending, inflight, everPaused>>
    /\ UNCHANGED <<sessionVars, captureVars>>

\* ------------------------------------------------------- ChallengeCenter

ChallengeIds(cs) == {cs[i].id : i \in 1..Len(cs)}

HasChallenge(cs, url) == \E i \in 1..Len(cs) : cs[i].url = url

\* Date.now().toString(): an id no challenge on screen or in a pending call has
FreshId ==
    CHOOSE n \in 1..(MaxChallenges + MaxPending + 1) :
        /\ n \notin ChallengeIds(challenges) \cup ChallengeIds(pending)
        /\ \A m \in 1..(n - 1) : m \in ChallengeIds(challenges) \cup ChallengeIds(pending)

\* the onCaptchaDetected callback: setChallenges(prev => [newChallenge, ...prev])
onCaptchaDetected(cs, url) == <<[id |-> FreshId, url |-> url]>> \o cs

\* setChallenges(prev => prev.filter(c => c.id !== challenge.id))
RECURSIVE RemoveById(_, _)
RemoveById(cs, id) ==
    IF cs = <<>> THEN <<>>
    ELSE IF Head(cs).id = id THEN RemoveById(Tail(cs), id)
    ELSE <<Head(cs)>> \o RemoveById(Tail(cs), id)

\* handleAction up to its await: the operator clicks an action button of a
\* challenge on screen; challenge:awaitUserAction is invoked without arguments
HandleActionBegin(i, action) ==
    /\ Len(pending) < MaxPending
    /\ pending' = Append(pending, [id |-> challenges[i].id, url |-> challenges[i].url,
                                   action |-> action])
    /\ last' = Op("handleAction", "")
    /\ UNCHANGED <<items, profiles, currentProfile, challenges, inflight, everPaused>>
    /\ UNCHANGED <<sessionVars, captureVars>>

\* handleAction doing what the help text says of Abort: "Stop crawling and
\* remove from queue"
HandleActionEnd_AbortRemoves ==
    /\ pending # <<>>
    /\ challenges' = RemoveById(challenges, Head(pending).id)
    /\ pending' = Tail(pending)
    /\ items' = IF Head(pending).action = "abort"
                THEN SelectSeq(items, LAMBDA item : item.url # Head(pending).url)
                ELSE items
    /\ last' = Op("resolve", "ok")
    /\ UNCHANGED <<profiles, currentProfile, inflight, everPaused>>
    /\ UNCHANGED <<sessionVars, captureVars>>

\* handleAction after its await: the main process has answered { action: 'continue' }
HandleActionEnd ==
    /\ pending # <<>>
    /\ challenges' = RemoveById(challenges, Head(pending).id)
    /\ pending' = Tail(pending)
    /\ last' = Op("resolve", "ok")
    /\ UNCHANGED <<items, profiles, currentProfile, inflight, everPaused>>
    /\ UNCHANGED <<sessionVars, captureVars>>

\* ------------------------------------ dispatcher and pipeline (design 4.1)

\* concurrency - runningCount under the active profile; a config without a
\* concurrency field leaves no capacity
Capacity ==
    IF "concurrency" \in DOMAIN ProfileGet.config
    THEN ProfileGet.config.concurrency - RunningCount(items)
    ELSE 0

QueuedIdx(q) == {i \in 1..Len(q) : q[i].status = "queued"}

\* the first n queued entries, oldest first
Selected(q, n) ==
    {i \in QueuedIdx(q) : Cardinality({j \in QueuedIdx(q) : j < i}) < n}

DispatchNext ==
    LET sel == Selected(items, Capacity)
    IN  /\ sel # {}
        /\ \A i \in sel : items[i].attempts < MaxAttempts
        /\ items' = [i \in 1..Len(items) |->
                        IF i \in sel
                        THEN [items[i] EXCEPT !.status = "running", !.attempts = @ + 1]
                        ELSE items[i]]
        /\ inflight' = [u \in Urls |->
                           IF \E i \in sel : items[i].url = u
                           THEN inflight[u] + 1 ELSE inflight[u]]
        /\ last' = Op("dispatchNext", "")
        /\ UNCHANGED <<profiles, currentProfile, challenges, pending, everPaused>>
        /\ UNCHANGED <<sessionVars, captureVars>>

\* Whether a transient failure of an entry is past the retry budget of the
\* active profile.  The shipped profile table sets no retries field; without
\* one the budget is undefined, and the failure may be retried or be final.
Exhausted(item) ==
    IF "retries" \in DOMAIN ProfileGet.config
    THEN {item.attempts > ProfileGet.config.retries}
    ELSE BOOLEAN

\* the entries a result of its running dispatch may leave
Outcomes(item, result) ==
    CASE result = "success" -> {[item EXCEPT !.status = "done"]}
      [] result = "transient" ->
            {IF x THEN [item EXCEPT !.status = "failed", !.error = "retries exhausted"]
                  ELSE [item EXCEPT !.status = "queued"] : x \in Exhausted(item)}
      [] result = "captcha" -> {[item EXCEPT !.status = "waiting_captcha"]}
      [] OTHER -> {[item EXCEPT !.status = "waiting_user"]}

Accepts(url) == Has(items, url) /\ Get(items, url).status = "running"

\* A result for an entry that is not running is answered NotFound and changes
\* nothing.  A challenge result is pushed to the renderer, whose callback runs
\* in the same step.
OnPipelineResult(url, result) ==
    /\ inflight[url] > 0
    /\ result \in {"captcha", "auth"} /\ Accepts(url) => Len(challenges) < MaxChallenges
    /\ inflight' = [inflight EXCEPT ![url] = @ - 1]
    /\ items' \in IF Accepts(url)
                  THEN {[items EXCEPT ![IndexOf(items, url)] = o] :
                            o \in Outcomes(Get(items, url), result)}
                  ELSE {items}
    /\ challenges' = IF Accepts(url) /\ result \in {"captcha", "auth"}
                     THEN onCaptchaDetected(challenges, url)
                     ELSE challenges
    /\ last' = Op("onPipelineResult", IF Accepts(url) THEN "ok" ELSE "NotFound")
    /\ UNCHANGED <<profiles, currentProfile, pending, everPaused>>
    /\ UNCHANGED <<sessionVars, captureVars>>

Next ==
    \/ \E urls \in UrlLists, options \in EnqueueOptions : Enqueue(urls, options)
    \/ \E url \in Urls : PauseItem(url)
    \/ \E url \in Urls : ResumeItem(url)
    \/ \E profile \in ProfileArgs, overrides \in OverrideArgs : ProfileSet(profile, overrides)
    \/ \E i \in 1..Len(challenges), action \in UserActions : HandleActionBegin(i, action)
    \/ HandleActionEnd
    \/ DispatchNext
    \/ \E url \in Urls, result \in PipelineResults : OnPipelineResult(url, result)

Spec == Init /\ [][Next]_vars

\* The queue and the governor, with an operator who leaves the challenges
\* alone: handleAction writes only the renderer's challenge list.
NextQueue ==
    \/ \E urls \in UrlLists, options \in EnqueueOptions : Enqueue(urls, options)
    \/ \E url \in Urls : PauseItem(url)
    \/ \E url \in Urls : ResumeItem(url)
    \/ \E profile \in ProfileArgs, overrides \in OverrideArgs : ProfileSet(profile, overrides)
    \/ DispatchNext
    \/ \E url \in Urls, result \in PipelineResults : OnPipelineResult(url, result)

SpecQueue == Init /\ [][NextQueue]_vars

\* The queue and the challenge list under the profile the program starts with.
NextChallenges ==
    \/ \E urls \in OperatorUrlLists, options \in EnqueueOptions : Enqueue(urls, options)
    \/ \E url \in OperatorUrls : PauseItem(url)
    \/ \E url \in OperatorUrls : ResumeItem(url)
    \/ \E i \in 1..Len(challenges), action \in UserActions : HandleActionBegin(i, action)
    \/ HandleActionEnd
    \/ DispatchNext
    \/ \E url \in OperatorUrls, result \in PipelineResults : OnPipelineResult(url, result)

SpecChallenges == Init /\ [][NextChallenges]_vars

\* The queue of one operator under the safe profile and its retry budget.
NextRetry ==
    \/ \E urls \in OperatorUrlLists, options \in EnqueueOptions : Enqueue(urls, options)
    \/ \E url \in OperatorUrls : PauseItem(url)
    \/ \E url \in OperatorUrls : ResumeItem(url)
    \/ \E profile \in RetryProfileArgs, overrides \in RetryOverrideArgs :
           ProfileSet(profile, overrides)
    \/ DispatchNext
    \/ \E url \in OperatorUrls, result \in PipelineResults : OnPipelineResult(url, result)

SpecRetry == Init /\ [][NextRetry]_vars

\* The governor: every profile name and override, over the queue of one
\* operator who neither pauses nor resumes.
NextProfiles ==
    \/ \E urls \in OperatorUrlLists, options \in EnqueueOptions : Enqueue(urls, options)
    \/ \E profile \in ProfileArgs, overrides \in ProfileOverrideArgs :
           ProfileSet(profile, overrides)
    \/ DispatchNext
    \/ \E url \in OperatorUrls, result \in PipelineResults : OnPipelineResult(url, result)

SpecProfiles == Init /\ [][NextProfiles]_vars

\* The queue of one operator under every options object, with profile switches.
NextEnqueue ==
    \/ \E urls \in OperatorUrlLists, options \in EnqueueOptionArgs : Enqueue(urls, options)
    \/ \E url \in OperatorUrls : PauseItem(url)
    \/ \E url \in OperatorUrls : ResumeItem(url)
    \/ \E profile \in LabelProfileArgs : ProfileSet(profile, NoOverrides)
    \/ DispatchNext
    \/ \E url \in OperatorUrls, result \in PipelineResults : OnPipelineResult(url, result)

SpecEnqueue == Init /\ [][NextEnqueue]_vars

\* A run that can make progress: the pipeline reports every dispatch as a
\* success or a captcha, the operator answers every challenge and asks for
\* every entry to be resumed, and nobody pauses.
ProgressResults == {"success", "captcha"}

NextProgress ==
    \/ \E urls \in OperatorUrlLists, options \in EnqueueOptions : Enqueue(urls, options)
    \/ \E url \in OperatorUrls : ResumeItem(url)
    \/ \E i \in 1..Len(challenges), action \in UserActions : HandleActionBegin(i, action)
    \/ HandleActionEnd
    \/ DispatchNext
    \/ \E url \in OperatorUrls, result \in ProgressResults : OnPipelineResult(url, result)

\* every step that stays possible is eventually taken
Fairness ==
    /\ WF_vars(DispatchNext)
    /\ \A url \in OperatorUrls :
           WF_vars(\E result \in ProgressResults : OnPipelineResult(url, result))
    /\ WF_vars(\E i \in 1..Len(challenges), action \in UserActions : HandleActionBegin(i, action))
    /\ WF_vars(HandleActionEnd)
    /\ \A url \in OperatorUrls : WF_vars(ResumeItem(url))

SpecProgress == Init /\ [][NextProgress]_vars /\ Fairness

\* --------------------------------------------------------- session store
\* SessionManager (the browser side) is the source's; the store behind
\* /api/sessions is not part of the sources and follows the design (4.4).

Domains == 1..NumDomains

\* sessionName = null
Null == "<null>"

\* domain = null, where a domain is optional
NullDomain == 0

SessionNames == {Null, "work"}

Cookies == {"p1", "p2"}

\* the options objects passed to saveSession
SaveOptions ==
    {[sessionName |-> n, expiresInDays |-> e] : n \in SessionNames, e \in {0, 1}}
    \cup {[sessionName |-> n, expiresInHours |-> 0] : n \in SessionNames}

\* expires_in_days: options.expiresInDays || 30
ExpiresInDays(options) ==
    IF "expiresInDays" \in DOMAIN options /\ options.expiresInDays # 0
    THEN options.expiresInDays
    ELSE DefaultExpiresInDays

\* the body saveSession posts to /save
SaveRequest(domain, cookies, options) ==
    [domain |-> domain,
     cookies |-> cookies,
     session_name |-> IF "sessionName" \in DOMAIN options THEN options.sessionName ELSE Null,
     expires_in_days |-> ExpiresInDays(options)]

\* loadSession never sending session_name
LoadRequest_NoName(domain, sessionName) == [domain |-> domain, session_name |-> Null]

\* the request loadSession sends: session_name only if (sessionName)
LoadRequest(domain, sessionName) ==
    [domain |-> domain,
     session_name |-> IF sessionName # Null THEN sessionName ELSE Null]

\* a record is active until the clock reaches its expiresAt
Active(r, t) == r.expiresAt > t

HasKey(r, domain, name) == r.domain = domain /\ r.name = name

\* the surrogate identifier of a new row
FreshRowId == CHOOSE n \in 1..(MaxRows + 1) :
    /\ \A r \in rows : r.id # n
    /\ \A m \in 1..(n - 1) : \E r \in rows : r.id = m

\* save: the new record supersedes the active record of its key
StoreSave(req) ==
    {r \in rows : ~(HasKey(r, req.domain, req.session_name) /\ Active(r, now))}
    \cup {[id |-> FreshRowId, domain |-> req.domain, name |-> req.session_name,
           payload |-> req.cookies, expiresAt |-> now + req.expires_in_days]}

\* load: the active records of the key (the store answers 404 if there is none)
StoreLoad(table, t, req) ==
    {r \in table : HasKey(r, req.domain, req.session_name) /\ Active(r, t)}

\* list
StoreList(domain, activeOnly) ==
    {r \in rows : (domain # NullDomain => r.domain = domain) /\ (activeOnly => Active(r, now))}

\* clear: the rows of the domain (of every domain), only the expired if asked
StoreClear(domain, expiredOnly) ==
    {r \in rows : (domain # NullDomain => r.domain = domain) /\ (expiredOnly => ~Active(r, now))}

\* what loadSession returns: null on 404, else the record (here its payload)
LoadResult(table, t, domain, sessionName) ==
    LET found == StoreLoad(table, t, LoadRequest(domain, sessionName))
    IN  IF found = {} THEN "null"
        ELSE (CHOOSE r \in found : \A o \in found : o.id <= r.id).payload

SaveSession(domain, cookies, options) ==
    /\ Cardinality(rows) < MaxRows
    /\ rows' = StoreSave(SaveRequest(domain, cookies, options))
    /\ last' = Op("save", cookies)
    /\ UNCHANGED <<now, queueVars, captureVars>>

LoadSession(domain, sessionName) ==
    /\ last' = Op("load", LoadResult(rows, now, domain, sessionName))
    /\ UNCHANGED <<rows, now, queueVars, captureVars>>

\* listSessions removing what it leaves out
ListSessions_DropsExpired(domain, activeOnly) ==
    /\ last' = Op("list", ToString(Cardinality(StoreList(domain, activeOnly))))
    /\ rows' = IF activeOnly THEN {r \in rows : Active(r, now)} ELSE rows
    /\ UNCHANGED <<now, queueVars, captureVars>>

ListSessions(domain, activeOnly) ==
    /\ last' = Op("list", ToString(Cardinality(StoreList(domain, activeOnly))))
    /\ UNCHANGED <<rows, now, queueVars, captureVars>>

\* deleteSession({ sessionId }), as the Delete button of the session list calls it
DeleteSession(sessionId) ==
    /\ rows' = {r \in rows : r.id # sessionId}
    /\ last' = Op("delete", ToString(Cardinality(rows \ rows')))
    /\ UNCHANGED <<now, queueVars, captureVars>>

ClearSessions(domain, expiredOnly) ==
    /\ rows' = rows \ StoreClear(domain, expiredOnly)
    /\ last' = Op("clear", ToString(Cardinality(StoreClear(domain, expiredOnly))))
    /\ UNCHANGED <<now, queueVars, captureVars>>

\* clearExpiredSessions: clearSessions(null, true)
ClearExpiredSessions == ClearSessions(NullDomain, TRUE)

GetDomains ==
    /\ last' = Op("domains", ToString(Cardinality({r.domain : r \in rows})))
    /\ UNCHANGED <<rows, now, queueVars, captureVars>>

\* a day passes
Tick ==
    /\ now < MaxTime
    /\ now' = now + 1
    /\ UNCHANGED <<rows, last, queueVars, captureVars>>

NextSessions ==
    \/ \E domain \in Domains, cookies \in Cookies, options \in SaveOptions :
           SaveSession(domain, cookies, options)
    \/ \E domain \in Domains, sessionName \in SessionNames : LoadSession(domain, sessionName)
    \/ \E domain \in Domains \cup {NullDomain}, activeOnly \in BOOLEAN :
           ListSessions(domain, activeOnly)
    \/ \E sessionId \in 1..MaxRows : DeleteSession(sessionId)
    \/ \E domain \in Domains \cup {NullDomain}, expiredOnly \in BOOLEAN :
           ClearSessions(domain, expiredOnly)
    \/ ClearExpiredSessions
    \/ GetDomains
    \/ Tick

SpecSessions == Init /\ [][NextSessions]_vars

\* ---------------------------------------------------------------- capture
\* capture:singlefile, one step per stretch between awaits.  A URL is the
\* sequence of its characters; a page is named by the URL it was loaded from.

\* the characters [a-z0-9] matches under the i flag, among a, A, ? and #

AlphaNumeric == {"a", "A"}

CaptureUrls == {<<"a">>, <<"A">>, <<"a", "?">>, <<"a", "#">>}

\* url.replace(/[^a-z0-9]/gi, '_'), character by character
Replace(ch) == IF ch \in AlphaNumeric THEN ch ELSE "_"

\* toLowerCase(), character by character
ToLowerCase(ch) == IF ch = "A" THEN "a" ELSE ch

\* url.replace(/[^a-z0-9]/gi, '_').toLowerCase() + '.singlefile.html'
FileName(url) ==
    [i \in 1..Len(url) |-> ToLowerCase(Replace(url[i]))] \o <<".singlefile.html">>

RemoveAt(seq, i) == SubSeq(seq, 1, i - 1) \o SubSeq(seq, i + 1, Len(seq))

\* the window is loading while a call waits for its loadURL
Loading == \E i \in 1..Len(requests) : requests[i].pc = "loadURL"

\* the handler up to await crawlWindow.loadURL(url): every call gets the one
\* crawl window; a navigation replaced by a newer one is aborted and its
\* loadURL rejects, which ends that call
CaptureSingleFile(url) ==
    /\ Len(requests) < MaxRequests
    /\ crawlWindow' = url
    /\ requests' = Append(SelectSeq(requests, LAMBDA r : r.pc # "loadURL"),
                          [url |-> url, pc |-> "loadURL", html |-> NoPage])
    /\ last' = Op("capture", "loadURL")
    /\ UNCHANGED <<files, queueVars, sessionVars>>

\* loadURL resolves; the call goes on to wait three seconds
LoadURLResolves(i) ==
    /\ requests[i].pc = "loadURL"
    /\ requests' = [requests EXCEPT ![i].pc = "setTimeout"]
    /\ last' = Op("capture", "setTimeout")
    /\ UNCHANGED <<crawlWindow, files, queueVars, sessionVars>>

\* the timer fires and executeJavaScript reads the document the window shows
\* once it has loaded
ExecuteJavaScript(i) ==
    /\ requests[i].pc = "setTimeout"
    /\ ~Loading
    /\ requests' = [requests EXCEPT ![i].pc = "writeFileSync", ![i].html = crawlWindow]
    /\ last' = Op("capture", "executeJavaScript")
    /\ UNCHANGED <<crawlWindow, files, queueVars, sessionVars>>

\* fs.writeFileSync(filePath, html) and the handler's return
WriteFileSync(i) ==
    LET filename == FileName(requests[i].url)
    IN  /\ requests[i].pc = "writeFileSync"
        /\ files' = [name \in DOMAIN files \cup {filename} |->
                        IF name = filename
                        THEN [html |-> requests[i].html, url |-> requests[i].url]
                        ELSE files[name]]
        /\ requests' = RemoveAt(requests, i)
        /\ last' = Op("capture", "htmlPath")
        /\ UNCHANGED <<crawlWindow, queueVars, sessionVars>>

NextCapture ==
    \/ \E url \in CaptureUrls : CaptureSingleFile(url)
    \/ \E i \in 1..Len(requests) : LoadURLResolves(i)
    \/ \E i \in 1..Len(requests) : ExecuteJavaScript(i)
    \/ \E i \in 1..Len(requests) : WriteFileSync(i)

SpecCapture == Init /\ [][NextCapture]_vars

\* ----------------------------------------------------------------- claims

StatusOf(q, url) == IF Has(q, url) THEN Get(q, url).status ELSE "absent"

UniqueUrls(q) == \A i, j \in 1..Len(q) : q[i].url = q[j].url => i = j

ActiveConfig == profiles[currentProfile]

\* C1 (as claimed): the number of running entries is at most the concurrency
\* of the active profile, in every reachable state (read for the states in
\* which the active config has a concurrency value).
C1_RunningWithinActiveCap ==
    "concurrency" \in DOMAIN ActiveConfig =>
        RunningCount(items) <= ActiveConfig.concurrency

\* C1 (amended): the number of running entries grows only up to the
\* concurrency of the profile active at that time, and it comes to exceed the
\* active concurrency only through a profile set, which leaves the queue alone.
C1_DispatchWithinActiveCap ==
    [][/\ RunningCount(items') > RunningCount(items) =>
            /\ "concurrency" \in DOMAIN ActiveConfig'
            /\ RunningCount(items') <= ActiveConfig'.concurrency
       /\ (C1_RunningWithinActiveCap /\ ~C1_RunningWithinActiveCap') =>
            /\ items' = items
            /\ \E profile \in ProfileArgs, overrides \in OverrideArgs :
                   ProfileSet(profile, overrides)]_vars

\* A dispatch has filled the active profile's capacity and left an entry queued.
C1_Witness ==
    /\ last.op = "dispatchNext"
    /\ "concurrency" \in DOMAIN ActiveConfig
    /\ RunningCount(items) = ActiveConfig.concurrency
    /\ \E i \in 1..Len(items) : items[i].status = "queued"

\* C2 (as claimed): no URL ever has two dispatches outstanding.
C2_OneOutstandingDispatch == \A url \in Urls : inflight[url] <= 1

\* C2 (amended): a dispatch of a URL starts only while its entry is queued,
\* and it starts while an earlier dispatch of that URL is outstanding only if
\* the entry had been paused.
C2_OverlapOnlyAfterPause ==
    [][\A url \in Urls :
        inflight'[url] > inflight[url] =>
            /\ StatusOf(items, url) = "queued"
            /\ StatusOf(items', url) = "running"
            /\ inflight[url] > 0 => url \in everPaused]_vars

\* A paused and resumed entry runs again while its first capture is in flight.
C2_Witness ==
    \E url \in Urls :
        /\ inflight[url] = 2
        /\ StatusOf(items, url) = "running"
        /\ url \in everPaused

StatusEdges ==
    {<<"queued", "running">>}
    \cup {<<"running", s>> : s \in {"done", "failed", "skipped", "waiting_captcha",
                                     "waiting_user", "queued"}}
    \cup {<<w, s>> : w \in {"waiting_captcha", "waiting_user"},
                     s \in {"queued", "skipped", "failed"}}
    \cup {<<"failed", "queued">>}

\* C4: every entry keeps its place and URL, and its status changes only along
\* the edges of the state machine.
C4_StatusEdgesOnly ==
    [][/\ Len(items') >= Len(items)
       /\ \A i \in 1..Len(items) :
            /\ items'[i].url = items[i].url
            /\ items'[i].status # items[i].status =>
                   <<items[i].status, items'[i].status>> \in StatusEdges]_vars

\* An entry has gone queued -> running -> waiting_user -> queued and runs again.
C4_Witness ==
    /\ last.op = "dispatchNext"
    /\ \E i \in 1..Len(items) :
           /\ items[i].status = "running"
           /\ items[i].url \in everPaused

\* C3: the queue never holds two entries with the same URL, and an enqueue
\* leaves every entry that was already present (whatever its status) exactly
\* as it was, in its place.
C3_NoDuplicateEntries ==
    [][/\ UniqueUrls(items')
       /\ \A urls \in UrlLists, options \in EnqueueOptions :
            Enqueue(urls, options) =>
                /\ Len(items') >= Len(items)
                /\ \A i \in 1..Len(items) : items'[i] = items[i]]_vars

\* An enqueue of a URL that was present has returned 0 while every entry is
\* past its first dispatch.
C3_Witness ==
    /\ last = Op("enqueue", "0")
    /\ items # <<>>
    /\ \A i \in 1..Len(items) : items[i].status # "queued" /\ items[i].attempts > 0

\* C6: pause(url) returns true exactly when the entry exists and is running,
\* and then only that entry changes, to waiting_user; otherwise it returns
\* false and the queue is as before.
C6_PauseOnlyFromRunning ==
    [][\A url \in Urls :
        PauseItem(url) =>
            LET running == \E i \in 1..Len(items) :
                               items[i].url = url /\ items[i].status = "running"
            IN  /\ last'.ret = Ret(running)
                /\ running =>
                     \E i \in 1..Len(items) :
                         /\ items[i].url = url
                         /\ items' = [items EXCEPT ![i].status = "waiting_user"]
                /\ ~running => items' = items]_vars

\* A pause has just succeeded.
C6_Witness ==
    /\ last = Op("pause", "true")
    /\ \E i \in 1..Len(items) : items[i].status = "waiting_user"

\* C5 (as claimed): resume(url) on an entry in waiting_captcha or waiting_user
\* returns true and moves it to queued.
C5_ResumeFromEitherWaitingState ==
    [][\A url \in Urls :
        (ResumeItem(url) /\ StatusOf(items, url) \in {"waiting_captcha", "waiting_user"})
            => (last'.ret = "true" /\ StatusOf(items', url) = "queued")]_vars

WaitingStates == {"waiting_captcha", "waiting_user"}

ResolvedStatus(action) ==
    CASE action \in {"continue", "retry"} -> "queued"
      [] action = "skip" -> "skipped"
      [] OTHER -> "failed"

\* C7 (as claimed): resolve(url, action) on a waiting entry with an outstanding
\* challenge sets the status the action stands for (abort with the error
\* "aborted by operator") and discards the challenge of that URL.
C7_ResolveSetsStatus ==
    [][(/\ HandleActionEnd
        /\ HasChallenge(challenges, Head(pending).url)
        /\ StatusOf(items, Head(pending).url) \in WaitingStates)
        => LET url == Head(pending).url
               action == Head(pending).action
           IN  /\ StatusOf(items', url) = ResolvedStatus(action)
               /\ action = "abort" => Get(items', url).error = "aborted by operator"
               /\ ~HasChallenge(challenges', url)]_vars

\* C8 (as claimed): resolve on a URL without an outstanding challenge fails
\* with NoActiveChallenge and changes neither the queue nor the challenges.
C8_ResolveWithoutChallengeFails ==
    [][(HandleActionEnd /\ ~HasChallenge(challenges, Head(pending).url))
        => /\ last'.ret = "NoActiveChallenge"
           /\ items' = items
           /\ challenges' = challenges]_vars

\* C9 (as claimed): at most one challenge is outstanding per URL.
C9_OneChallengePerUrl ==
    \A i, j \in 1..Len(challenges) : challenges[i].url = challenges[j].url => i = j

\* C10 (as claimed): an entry is in a waiting state exactly when a challenge
\* is outstanding for its URL.
C10_WaitingIffChallenge ==
    \A i \in 1..Len(items) :
        items[i].status \in WaitingStates <=> HasChallenge(challenges, items[i].url)

\* C14: entries keep the place their enqueue gave them (new entries go behind
\* the old ones), and a dispatch never moves an entry to running while an
\* entry before it stays queued.
C14_DispatchOldestFirst ==
    [][/\ Len(items') >= Len(items)
       /\ \A i \in 1..Len(items) : items'[i].url = items[i].url
       /\ \A i, j \in 1..Len(items) :
            (/\ i < j
             /\ items[i].status = "queued"
             /\ items[j].status = "queued"
             /\ items'[j].status = "running")
                => items'[i].status = "running"]_vars

\* Under a cap of one, a dispatch has taken the older entry, which had been
\* paused and resumed, and left the younger, never dispatched entry queued.
C14_Witness ==
    /\ last.op = "dispatchNext"
    /\ Len(items) = 2
    /\ items[1].status = "running"
    /\ items[1].url \in everPaused
    /\ inflight[items[1].url] = 1
    /\ items[2].status = "queued"
    /\ items[2].attempts = 0

\* the URLs of a list
Range(urls) == {urls[n] : n \in 1..Len(urls)}

\* the URLs of the entries of a queue
UrlsOf(q) == {q[i].url : i \in 1..Len(q)}

\* C15: enqueue returns the number of entries it created, which is the growth
\* of the queue and the number of distinct URLs of the list that were absent;
\* the same call made again returns 0 and leaves the queue as it is.
C15_EnqueueCountsCreated ==
    [][\A urls \in UrlLists, options \in EnqueueOptions :
        Enqueue(urls, options) =>
            /\ last'.ret = ToString(Len(items') - Len(items))
            /\ Len(items') - Len(items) = Cardinality(Range(urls) \ UrlsOf(items))
            /\ addItems(items', urls, options) = [q |-> items', enqueued |-> 0]]_vars

\* An enqueue of one URL twice in a list has created one entry, behind an
\* entry that was there.
C15_Witness ==
    /\ last = Op("enqueue", "1")
    /\ Len(items) = 2
    /\ items[1].attempts > 0
    /\ items[2].attempts = 0
    /\ items[2].status = "queued"

\* the sum of the counts getStats reports besides total
SumBuckets(s) == s.running + s.waiting + s.done + s.failed

\* C16 (as claimed): the bucket counts stats reports add up to total.
C16_BucketsAddUpToTotal ==
    SumBuckets(getStats(items)) = getStats(items).total

\* C16 (amended): stats reports the running, the waiting (either waiting
\* state), the done and the failed entries and total, the number of entries;
\* queued and skipped entries are in no bucket, so the buckets add up to
\* total less the queued and skipped entries.
C16_BucketsOmitQueuedAndSkipped ==
    LET s == getStats(items)
        n(S) == Cardinality({i \in 1..Len(items) : items[i].status \in S})
    IN  /\ DOMAIN s = {"running", "waiting", "done", "failed", "total"}
        /\ s.running = n({"running"})
        /\ s.waiting = n({"waiting_captcha"}) + n({"waiting_user"})
        /\ s.done = n({"done"})
        /\ s.failed = n({"failed"})
        /\ s.total = Len(items)
        /\ SumBuckets(s) + n({"queued", "skipped"}) = s.total

\* One entry waits for a CAPTCHA and another for the operator.
C16_Witness ==
    /\ Len(items) = 2
    /\ {items[1].status, items[2].status} = {"waiting_captcha", "waiting_user"}
    /\ getStats(items).waiting = 2

\* entry i is queued after the step and was not before it
EntersQueued(i) ==
    /\ items'[i].status = "queued"
    /\ i <= Len(items) => items[i].status # "queued"

\* the three events the claim names, for entry i
ByEnqueue(i) ==
    /\ i > Len(items)
    /\ \E urls \in UrlLists, options \in EnqueueOptions : Enqueue(urls, options)

ByRetry(i) ==
    /\ i <= Len(items)
    /\ items[i].status = "running"
    /\ OnPipelineResult(items[i].url, "transient")

ByResolution(i) ==
    /\ i <= Len(items)
    /\ HandleActionEnd
    /\ Head(pending).url = items[i].url
    /\ Head(pending).action \in {"continue", "retry"}

\* C13 (as claimed): an entry enters queued only by its enqueue, by a retried
\* transient failure, or by a challenge resolution with continue or retry.
C13_QueuedByThreeEvents ==
    [][\A i \in 1..Len(items') :
        EntersQueued(i) => ByEnqueue(i) \/ ByRetry(i) \/ ByResolution(i)]_vars

\* C13 (amended): ... or by a resume of the entry while it is waiting.
C13_QueuedByFourEvents ==
    [][\A i \in 1..Len(items') :
        EntersQueued(i) =>
            \/ ByEnqueue(i)
            \/ ByRetry(i)
            \/ ByResolution(i)
            \/ /\ i <= Len(items)
               /\ items[i].status \in WaitingStates
               /\ ResumeItem(items[i].url)]_vars

\* A resume has returned an entry to queued whose challenge is still on screen.
C13_Witness ==
    /\ last = Op("resume", "true")
    /\ \E i \in 1..Len(items) :
           /\ items[i].status = "queued"
           /\ items[i].attempts > 0
           /\ HasChallenge(challenges, items[i].url)

\* the challenges raised for a URL (none is resolved where this is used)
ChallengeCount(cs, url) == Cardinality({i \in 1..Len(cs) : cs[i].url = url})

\* a transient failure is reported for the running entry of url
TransientFailure(url) == Accepts(url) /\ OnPipelineResult(url, "transient")

\* C11 (as claimed): under retries = R (2 for the safe profile as shipped), an
\* entry all of whose dispatches fail transiently is queued again after each
\* of its first R failures and failed, with an error, at failure R + 1.
C11_FailsAfterRetries ==
    [][\A url \in Urls :
        (/\ TransientFailure(url)
         /\ url \notin everPaused
         /\ ~HasChallenge(challenges, url)
         /\ "retries" \in DOMAIN ActiveConfig \/ currentProfile = "safe")
        => LET R == IF "retries" \in DOMAIN ActiveConfig THEN ActiveConfig.retries ELSE 2
           IN  IF Get(items, url).attempts > R
               THEN StatusOf(items', url) = "failed" /\ Get(items', url).error # ""
               ELSE StatusOf(items', url) = "queued"]_vars

PolicyFields == {"concurrency", "delay", "respectRobots", "retries", "backoffMultiplier"}

\* C17 (as claimed): profile set with a name other than standard, safe and
\* guided fails and leaves the active profile, the policies and the queue as
\* they were; the active profile is always one of the three.
C17_UnknownProfileRejected ==
    [][/\ \A profile \in ProfileArgs \ ExecutionProfile, overrides \in ProfileOverrideArgs :
            ProfileSet(profile, overrides) =>
                /\ last'.ret # "ok"
                /\ currentProfile' = currentProfile
                /\ profiles' = profiles
                /\ items' = items
       /\ currentProfile' \in ExecutionProfile]_vars

\* C18 (as claimed): profile set with an override field that is no policy
\* field is rejected and leaves the named profile's policy as it was.
C18_UnknownFieldRejected ==
    [][\A profile \in ExecutionProfile, overrides \in ProfileOverrideArgs :
        (ProfileSet(profile, overrides) /\ ~(DOMAIN overrides \subseteq PolicyFields))
            => /\ last'.ret # "ok"
               /\ profiles'[profile] = profiles[profile]]_vars

\* C19: after a successful set(name, overrides) get answers with name and a
\* config that has the overrides' value in every overridden field and the old
\* value in every other; the other profiles' configs are as before, and no
\* other operation changes a config (so the merge outlasts later switches).
C19_ShallowMerge ==
    [][/\ \A profile \in ProfileArgs, overrides \in ProfileOverrideArgs :
            (ProfileSet(profile, overrides) /\ last'.ret = "ok") =>
                /\ ProfileGet'.profile = profile
                /\ DOMAIN ProfileGet'.config = DOMAIN profiles[profile] \cup DOMAIN overrides
                /\ \A k \in DOMAIN overrides : ProfileGet'.config[k] = overrides[k]
                /\ \A k \in DOMAIN profiles[profile] \ DOMAIN overrides :
                       ProfileGet'.config[k] = profiles[profile][k]
                /\ \A other \in DOMAIN profiles \ {profile} :
                       profiles'[other] = profiles[other]
       /\ profiles' # profiles =>
            \E profile \in ProfileArgs, overrides \in ProfileOverrideArgs :
                ProfileSet(profile, overrides) /\ overrides # NoOverrides]_vars

\* The standard profile's concurrency was overridden, and after a switch to
\* safe and back get answers with the override and the old delay.
C19_Witness ==
    /\ last = Op("profileSet", "ok")
    /\ ProfileGet.profile = "standard"
    /\ ProfileGet.config.concurrency = 1
    /\ ProfileGet.config.delay = InitProfiles["standard"].delay
    /\ "zoom" \in DOMAIN profiles["safe"]

\* C20: profile set leaves every queue entry as it was.
C20_ProfileSetKeepsQueue ==
    [][\A profile \in ProfileArgs, overrides \in ProfileOverrideArgs :
        ProfileSet(profile, overrides) => items' = items /\ inflight' = inflight]_vars

\* The profile was switched to safe, with a concurrency override, while an
\* entry was running.
C20_Witness ==
    /\ last = Op("profileSet", "ok")
    /\ currentProfile = "safe"
    /\ \E i \in 1..Len(items) : items[i].status = "running"

\* C21 (as claimed): an entry's profile is the active profile of the moment
\* it was enqueued, and it never changes afterwards.
C21_LabelIsActiveProfile ==
    [][/\ \A i \in 1..Len(items) : items'[i].profile = items[i].profile
       /\ \A i \in (Len(items) + 1)..Len(items') :
            items'[i].profile = currentProfile]_vars

\* options that name no defined profile, or a depth below zero
Malformed(options) ==
    \/ "profile" \in DOMAIN options /\ options.profile \notin ExecutionProfile
    \/ "depth" \in DOMAIN options /\ options.depth < 0

\* C22 (as claimed): an enqueue with malformed options (here of a URL that is
\* not present) is rejected with InvalidInput and creates no entry; every
\* entry has a depth of at least 0 and a defined profile.
C22_MalformedOptionsRejected ==
    [][/\ \A urls \in UrlLists, options \in EnqueueOptionArgs :
            (/\ Enqueue(urls, options)
             /\ Malformed(options)
             /\ Range(urls) \ UrlsOf(items) # {})
            => last'.ret = "InvalidInput" /\ items' = items
       /\ \A i \in 1..Len(items') :
            items'[i].depth >= 0 /\ items'[i].profile \in ExecutionProfile]_vars

C25_LastWriteWins ==
    [][/\ \A domain \in Domains, name \in SessionNames :
            Cardinality({r \in rows' : HasKey(r, domain, name) /\ Active(r, now')}) <= 1
       /\ \A domain \in Domains, cookies \in Cookies, options \in SaveOptions :
            SaveSession(domain, cookies, options)
            => LoadResult(rows', now', domain, options.sessionName) = cookies]_vars

\* a second save of a key has superseded the first
C25_Witness ==
    /\ last = Op("save", "p2")
    /\ \E r \in rows : r.id = 2 /\ r.payload = "p2" /\ r.name = "work" /\ rows = {r}


\* the caller asked for a lifetime of 0
ZeroLifetime(options) ==
    \/ "expiresInDays" \in DOMAIN options /\ options.expiresInDays = 0
    \/ "expiresInHours" \in DOMAIN options /\ options.expiresInHours = 0

\* C26: loadSession never returns a record whose expiresAt is not later than
\* the clock, and right after a saveSession with a lifetime of 0 a
\* loadSession of the same key returns not-found.
C26_ExpiredNeverLoaded ==
    [][/\ \A domain \in Domains, name \in SessionNames :
            (LoadSession(domain, name) /\ last'.ret # "null")
            => \E r \in rows : HasKey(r, domain, name) /\ r.expiresAt > now
                                /\ r.payload = last'.ret
       /\ \A domain \in Domains, cookies \in Cookies, options \in SaveOptions :
            (SaveSession(domain, cookies, options) /\ ZeroLifetime(options))
            => LoadResult(rows', now', domain, options.sessionName) = "null"]_vars


\* this step removes the stored row of an expired record
RemovesExpired == \E r \in rows \ rows' : ~Active(r, now)

\* loadSession, listSessions and getDomains leave the stored rows as they are
ReadsKeepRows ==
    /\ \A domain \in Domains, name \in SessionNames :
            LoadSession(domain, name) => rows' = rows
    /\ \A domain \in Domains \cup {NullDomain}, activeOnly \in BOOLEAN :
            ListSessions(domain, activeOnly) => rows' = rows
    /\ GetDomains => rows' = rows

C28_EveryEntryFinishes ==
    \A url \in OperatorUrls :
        (StatusOf(items, url) = "queued")
            ~> (StatusOf(items, url) \in {"done", "failed", "skipped"})


\* C29: whatever the interleaving of the capture:singlefile calls in progress,
\* every file holds the page of the URL of the call that wrote it, under that
\* URL's file name.
C29_EachCallSavesItsOwnPage ==
    \A name \in DOMAIN files :
        files[name].html = files[name].url /\ name = FileName(files[name].url)

\* C30: distinct URLs are captured to distinct file paths: a call never
\* writes over the snapshot of another URL.
C30_DistinctUrlsDistinctPaths ==
    [][\A i \in 1..Len(requests) :
          (WriteFileSync(i) /\ FileName(requests[i].url) \in DOMAIN files)
          => files[FileName(requests[i].url)].url = requests[i].url]_vars

====
